---- MODULE Spec2Model ----
(***************************************************************************)
(* A model of antialias (src/antialias.py): the naming rules of scanned    *)
(* shell functions and scripts, the registry built from a configuration,   *)
(* the `eval` and `list` sub-commands, and the shell snippet `eval` emits. *)
(*                                                                         *)
(* Representation.  A Python str is a sequence of one-character strings,   *)
(* so that replace(), Path.stem, shlex.quote and comparison are computed.  *)
(* A pathlib.Path is the sequence of its parts.  An Optional value is the  *)
(* empty sequence (None) or a one-element sequence (a value).              *)
(***************************************************************************)
EXTENDS Integers, Sequences, FiniteSets, TLC

None == <<>>

Some(x) == <<x>>

(***************************************************************************)
(* Strings and paths of the bounded universe.                              *)
(***************************************************************************)
s_build == <<"b","u","i","l","d">>

s_a_b == <<"a","_","b">>

s_us_list == <<"_","_","l","i","s","t">>

s_b == <<"b">>

s_bld == <<"b","l","d">>

s_zz == <<"z","z">>

s_hi == <<"h","i">>

s_ov == <<"o","v">>

s_deploy_sh == <<"d","e","p","l","o","y",".","s","h">>

s_deploy == <<"d","e","p","l","o","y">>

s_notes_txt == <<"n","o","t","e","s",".","t","x","t">>

s_a_b_py == <<"a","_","b",".","p","y">>

s_sub == <<"s","u","b">>

s_root == <<"/">>

PathA == <<s_root, <<"a",".","s","h">> >>

PathB == <<s_root, <<"b",".","s","h">> >>

DirD == <<s_root, <<"h">>, <<"b","i","n">> >>

\* The key None of Config.overrides (the "*" entry of the config file).
GLOBAL == <<>>

(***************************************************************************)
(* Override (a dataclass).  `id` is the object's identity: Python's `is`   *)
(* compares identities, and _NULL_OVERRIDE is the one object with id 0.    *)
(* Config.from_dict constructs a fresh Override for every configured       *)
(* entry, so configured overrides have ids 1, 2, ...                       *)
(***************************************************************************)
Override(id, name, help, aliases) ==
    [id |-> id, name |-> name, help |-> help,
     aliases |-> aliases \cup (IF name # None THEN {name[1]} ELSE {})]

NULL_OVERRIDE == Override(0, None, None, {})

Is(x, y) == x.id = y.id

\* dict.get(key), as an Optional.
DictGet(d, k) == IF k \in DOMAIN d THEN Some(d[k]) ELSE None

\* config.overrides.get(key, {}).get(original_name)
OverridesGet(config, key, original_name) ==
    IF key \in DOMAIN config.overrides
    THEN DictGet(config.overrides[key], original_name)
    ELSE None

\* Python's `a or b` on Optional[str]: None and "" are falsy.
PyOr(a, b) == IF a # None /\ a[1] # <<>> THEN a ELSE b

\* Mutant of UnderscoreToDash: str.replace("_", "-", 1).
UnderscoreToDashFirstOnly(s) ==
    [i \in 1..Len(s) |->
       IF s[i] = "_" /\ (\A j \in 1..(i - 1) : s[j] # "_") THEN "-" ELSE s[i]]

\* str.replace("_", "-")
UnderscoreToDash(s) == [i \in 1..Len(s) |-> IF s[i] = "_" THEN "-" ELSE s[i]]

\* str.rfind("."), 0-based, -1 when absent.
RFindDot(s) ==
    LET at == {i \in 1..Len(s) : s[i] = "."}
    IN IF at = {} THEN -1 ELSE (CHOOSE i \in at : \A j \in at : j <= i) - 1

\* pathlib: Path(name).stem for a name without a separator.
Stem(name) ==
    LET i == RFindDot(name)
    IN IF 0 < i /\ i < Len(name) - 1 THEN SubSeq(name, 1, i) ELSE name

(***************************************************************************)
(* SourceFunctionRecord._get_names                                         *)
(***************************************************************************)
SourceGetNames(original_name, path, config) ==
    LET exact == OverridesGet(config, path, original_name)
        override == IF exact = None
                    THEN OverridesGet(config, GLOBAL, original_name)
                    ELSE exact
        names == IF override # None /\ Is(override[1], NULL_OVERRIDE)
                 THEN override[1].aliases
                 ELSE IF config.underscore_to_dash
                      THEN {UnderscoreToDash(original_name)}
                      ELSE {original_name}
    IN names \cup (IF config.keep_original_name THEN {original_name} ELSE {})

\* Mutant of GetOverride: the global override is looked up before the exact path.
GetOverrideGlobalFirst(original_name, path, config) ==
    LET global == OverridesGet(config, GLOBAL, original_name)
        override == IF global = None
                    THEN OverridesGet(config, path, original_name)
                    ELSE global
    IN IF override # None THEN override[1] ELSE NULL_OVERRIDE

\* SourceFunctionRecord._get_override
GetOverride(original_name, path, config) ==
    LET exact == OverridesGet(config, path, original_name)
        override == IF exact = None
                    THEN OverridesGet(config, GLOBAL, original_name)
                    ELSE exact
    IN IF override # None THEN override[1] ELSE NULL_OVERRIDE

(***************************************************************************)
(* ScriptFunctionRecord._get_names: the loop over names.copy(), in the     *)
(* iteration order `order` of the set (a sequence of its elements).        *)
(***************************************************************************)
RECURSIVE DropExtensions(_, _, _, _)
DropExtensions(names, order, original_name, config) ==
    IF order = <<>> THEN names
    ELSE LET name == Head(order)
             next == IF name # original_name \/ ~config.keep_original_name
                     THEN (names \ {name}) \cup {Stem(name)}
                     ELSE names
         IN DropExtensions(next, Tail(order), original_name, config)

\* Every order in which a set can be iterated.
Orders(S) ==
    {o \in [1..Cardinality(S) -> S] : \A i, j \in 1..Cardinality(S) : o[i] = o[j] => i = j}

\* The name sets ScriptFunctionRecord._get_names can return.
ScriptGetNames(original_name, path, config) ==
    LET names == SourceGetNames(original_name, path, config)
    IN {DropExtensions(names, o, original_name, config) : o \in Orders(names)}

(***************************************************************************)
(* SourceFunctionRecord.build_all, given the names _get_names returned;    *)
(* AbstractFunctionRecord.__post_init__ turns a help of None into "".      *)
(***************************************************************************)
PostInitHelp(help) == IF help = None THEN <<>> ELSE help[1]

BuildRecords(cls, names, original_name, path, config, comment) ==
    LET overridden_help == GetOverride(original_name, path, config).help
    IN [name \in names |->
          [cls |-> cls,
           name |-> name,
           original_name |-> original_name,
           help |-> PostInitHelp(PyOr(overridden_help, comment)),
           path |-> path,
           aliases |-> names]]

(***************************************************************************)
(* Comparison of str and of Path, as sorted() uses them: str compares by   *)
(* code point, a Path by the list of its parts.                            *)
(***************************************************************************)
Range(f) == {f[x] : x \in DOMAIN f}

AsciiPrintable ==
    <<
      " ", "!", "\"", "#", "$", "%", "&", "'", "(", ")", "*", "+", ",", "-", ".", "/",
      "0", "1", "2", "3", "4", "5", "6", "7", "8", "9", ":", ";", "<", "=", ">", "?",
      "@", "A", "B", "C", "D", "E", "F", "G", "H", "I", "J", "K", "L", "M", "N", "O",
      "P", "Q", "R", "S", "T", "U", "V", "W", "X", "Y", "Z", "[", "backslash", "]", "^", "_",
      "backtick", "a", "b", "c", "d", "e", "f", "g", "h", "i", "j", "k", "l", "m", "n", "o",
      "p", "q", "r", "s", "t", "u", "v", "w", "x", "y", "z", "{", "|", "}", "~"
    >>

\* ord(c) of a printable ASCII character (code points 32..126 in order; the
\* backslash and the backtick, which no string of the model holds, are written
\* out as words).
OrdTable == [c \in Range(AsciiPrintable) |->
               31 + (CHOOSE i \in 1..Len(AsciiPrintable) : AsciiPrintable[i] = c)]

Ord(c) == OrdTable[c]

Min(a, b) == IF a < b THEN a ELSE b

\* s < t for two str.
StrLess(s, t) ==
    \E k \in 0..Min(Len(s), Len(t)) :
        /\ \A i \in 1..k : s[i] = t[i]
        /\ \/ (k = Len(s) /\ k < Len(t))
           \/ (k < Len(s) /\ k < Len(t) /\ Ord(s[k + 1]) < Ord(t[k + 1]))

\* p < q for two Path.
PathLess(p, q) ==
    \E k \in 0..Min(Len(p), Len(q)) :
        /\ \A i \in 1..k : p[i] = q[i]
        /\ \/ (k = Len(p) /\ k < Len(q))
           \/ (k < Len(p) /\ k < Len(q) /\ StrLess(p[k + 1], q[k + 1]))

\* Mutant of Update: keys already present keep their value (dict.setdefault).
UpdateKeepingPresent(d, other) ==
    [k \in DOMAIN d \cup DOMAIN other |-> IF k \in DOMAIN d THEN d[k] ELSE other[k]]

\* dict.update(other)
Update(d, other) ==
    [k \in DOMAIN d \cup DOMAIN other |-> IF k \in DOMAIN other THEN other[k] ELSE d[k]]

(***************************************************************************)
(* SPECIAL_FUNCTIONS, in the order of the mapping's items.                 *)
(***************************************************************************)
s_dd_dump_config == <<"-","-","d","u","m","p","-","c","o","n","f","i","g">>

s_dump_config == <<"d","u","m","p","-","c","o","n","f","i","g">>

s_dump_help ==
    <<"D","u","m","p"," ","c","o","n","f","i","g"," ","t","o"," ","a"," ","f","i","l","e",".">>

s_dd_list == <<"-","-","l","i","s","t">>

s_list == <<"l","i","s","t">>

s_list_help ==
    <<"L","i","s","t"," ","a","l","l"," ","a","v","a","i","l","a","b","l","e"," ",
      "f","u","n","c","t","i","o","n","s",".">>

SPECIAL_FUNCTIONS ==
    << <<s_dd_dump_config, s_dump_config, s_dump_help>>,
       <<s_dd_list, s_list, s_list_help>> >>

EVAL_COMMAND == <<"e","v","a","l">>

HOME_DIR == <<s_root, <<"h">> >>

\* SpecialFunctionRecord(name=special_name, original_name=name, help=comment)
SpecialFunctionRecord(item) ==
    [cls |-> "special",
     name |-> item[1],
     original_name |-> item[2],
     help |-> PostInitHelp(Some(item[3])),
     path |-> None,
     aliases |-> {}]

(***************************************************************************)
(* Registry._get_source_functions: `matches` are the matches re.finditer   *)
(* yields on the file's text, in text order, each the pair of groups       *)
(* (function_name, comment).                                               *)
(***************************************************************************)
RECURSIVE GetSourceFunctions(_, _, _, _)
GetSourceFunctions(functions_, matches, path, config_) ==
    IF matches = <<>> THEN functions_
    ELSE LET match == Head(matches)
             built == BuildRecords("source",
                          SourceGetNames(match.function_name, path, config_),
                          match.function_name, path, config_, match.comment)
         IN GetSourceFunctions(Update(functions_, built), Tail(matches), path, config_)

\* The keys of an insertion-ordered dict kept as a sequence of records.
Keys(records) == {records[i].name : i \in 1..Len(records)}

Item(records, name) == records[CHOOSE i \in 1..Len(records) : records[i].name = name]

(***************************************************************************)
(* shlex.quote, shlex.join and str(Path).                                  *)
(***************************************************************************)
RECURSIVE Concat(_)
Concat(seqs) == IF seqs = <<>> THEN <<>> ELSE Head(seqs) \o Concat(Tail(seqs))

\* sep.join(strs)
RECURSIVE Join(_, _)
Join(sep, strs) ==
    IF strs = <<>> THEN <<>>
    ELSE IF Len(strs) = 1 THEN strs[1]
    ELSE strs[1] \o sep \o Join(sep, Tail(strs))

\* The characters shlex leaves unquoted: [\w@%+=:,./-] (ASCII).
SafeChars ==
    {"_", "@", "%", "+", "=", ":", ",", ".", "/", "-"}
    \cup {c \in Range(AsciiPrintable) :
            \/ (48 <= Ord(c) /\ Ord(c) <= 57)
            \/ (65 <= Ord(c) /\ Ord(c) <= 90)
            \/ (97 <= Ord(c) /\ Ord(c) <= 122)}

IsSafeChar(c) == c \in SafeChars

\* shlex.quote(s)
Quote(s) ==
    IF s = <<>> THEN <<"'", "'">>
    ELSE IF \A i \in 1..Len(s) : IsSafeChar(s[i]) THEN s
    ELSE <<"'">>
         \o Concat([i \in 1..Len(s) |->
                      IF s[i] = "'" THEN <<"'", "\"", "'", "\"", "'">> ELSE <<s[i]>>])
         \o <<"'">>

\* shlex.join(args)
ShlexJoin(args) == Join(<<" ">>, [i \in 1..Len(args) |-> Quote(args[i])])

\* str(path)
PathStr(path) ==
    IF path # <<>> /\ path[1] = s_root
    THEN s_root \o Join(<<"/">>, Tail(path))
    ELSE Join(<<"/">>, path)

\* AbstractFunctionRecord.format_command(args, name=name)
BaseFormatCommand(name, args) == name \o <<" ">> \o ShlexJoin(args)

\* itertools.takewhile(lambda a: a != EVAL_COMMAND, sys.argv)
RECURSIVE TakeUntilEval(_)
TakeUntilEval(argv_) ==
    IF argv_ = <<>> \/ Head(argv_) = EVAL_COMMAND THEN <<>>
    ELSE <<Head(argv_)>> \o TakeUntilEval(Tail(argv_))

\* SpecialFunctionRecord.format_command(args)
SpecialFormatCommand(rec, args, argv_) ==
    LET actual == TakeUntilEval(argv_) \o <<rec.original_name>> \o args
    IN BaseFormatCommand(Head(actual), Tail(actual))

\* ScriptFunctionRecord.format_command(args)
ScriptFormatCommand(rec, args) ==
    BaseFormatCommand(PathStr(rec.path \o <<rec.original_name>>), args)

\* Mutant of SourceFormatCommand: the name the record is registered under is run.
SourceFormatCommandByName(rec, args) == BaseFormatCommand(rec.name, args)

\* SourceFunctionRecord inherits AbstractFunctionRecord.format_command(args)
SourceFormatCommand(rec, args) == BaseFormatCommand(rec.original_name, args)

\* record.format_command(args), dispatched on the record's class.
FormatCommand(rec, args, argv_) ==
    IF rec.cls = "special" THEN SpecialFormatCommand(rec, args, argv_)
    ELSE IF rec.cls = "script" THEN ScriptFormatCommand(rec, args)
    ELSE SourceFormatCommand(rec, args)

(***************************************************************************)
(* Registry.get and Registry.__contains__                                  *)
(***************************************************************************)
AsDict(records) == [name \in Keys(records) |-> Item(records, name)]

RECURSIVE GetFrom(_, _)
GetFrom(registries, name) ==
    IF registries = <<>> THEN None
    ELSE IF name \in DOMAIN Head(registries) THEN Some(Head(registries)[name])
    ELSE GetFrom(Tail(registries), name)

\* Mutant of RegistryGet: the user's functions are searched before the special ones.
RegistryGetUserFirst(special, source, script, name) ==
    GetFrom(<<source, script, AsDict(special)>>, name)

\* Registry.get(name); None stands for the KeyError.
RegistryGet(special, source, script, name) ==
    GetFrom(<<AsDict(special), source, script>>, name)

\* Mutant of RegistryContains: the script functions are left out.
RegistryContainsNoScripts(special, source, script, name) ==
    \/ name \in DOMAIN source
    \/ name \in Keys(special)

\* name in registry
RegistryContains(special, source, script, name) ==
    \/ name \in DOMAIN source
    \/ name \in Keys(special)
    \/ name \in DOMAIN script

(***************************************************************************)
(* Registry.iter_user_functions and _generate_unique_records               *)
(***************************************************************************)
\* The order sorted(..., key=lambda r: (r.path, r.name)) puts two records in; the
\* sort is stable and the source records are chained before the script records.
RecordLess(r, q) ==
    \/ PathLess(r.path, q.path)
    \/ (r.path = q.path /\ StrLess(r.name, q.name))
    \/ (r.path = q.path /\ r.name = q.name /\ r.cls = "source" /\ q.cls = "script")

RECURSIVE Sorted(_)
Sorted(records) ==
    IF records = {} THEN <<>>
    ELSE LET first == CHOOSE r \in records : \A q \in records \ {r} : RecordLess(r, q)
         IN <<first>> \o Sorted(records \ {first})

RECURSIVE GenerateUniqueRecords(_, _)
GenerateUniqueRecords(records, seen) ==
    IF records = <<>> THEN <<>>
    ELSE (IF Head(records).original_name \notin seen THEN <<Head(records)>> ELSE <<>>)
         \o GenerateUniqueRecords(Tail(records), seen \cup {Head(records).original_name})

\* itertools.groupby(records, key=lambda r: r.path): runs of equal path.
RECURSIVE GroupByPath(_)
GroupByPath(records) ==
    IF records = <<>> THEN <<>>
    ELSE LET path == Head(records).path
             n == CHOOSE k \in 1..Len(records) :
                    /\ \A i \in 1..k : records[i].path = path
                    /\ (k < Len(records) => records[k + 1].path # path)
         IN <<SubSeq(records, 1, n)>> \o GroupByPath(SubSeq(records, n + 1, Len(records)))

\* Mutant of IterUserFunctions: every record of a group is yielded, one per key.
IterUserFunctionsAllKeys(source, script) ==
    LET groups == GroupByPath(Sorted(Range(source) \cup Range(script)))
    IN [i \in 1..Len(groups) |-> <<groups[i][1].path, groups[i]>>]

\* The (path, group_list) pairs iter_user_functions yields.
IterUserFunctions(source, script) ==
    LET groups == GroupByPath(Sorted(Range(source) \cup Range(script)))
        unique == [i \in 1..Len(groups) |-> GenerateUniqueRecords(groups[i], {})]
    IN SelectSeq([i \in 1..Len(groups) |-> <<groups[i][1].path, unique[i]>>],
                 LAMBDA g : g[2] # <<>>)

(***************************************************************************)
(* list_: the lines it prints.                                             *)
(***************************************************************************)
\* _shrink_path
ShrinkPath(path) ==
    IF Len(path) >= Len(HOME_DIR) /\ SubSeq(path, 1, Len(HOME_DIR)) = HOME_DIR
    THEN <<<<"~">>>> \o SubSeq(path, Len(HOME_DIR) + 1, Len(path))
    ELSE path

\* ", ".join(names): the set is iterated in one of its orders.
JoinSet(names) ==
    IF names = {} THEN <<>>
    ELSE LET order == CHOOSE o \in Orders(names) : TRUE
         IN Join(<<",", " ">>, order)

RecordLine(rec, config_) ==
    LET help_string == IF rec.help # <<>> THEN <<":", " ">> \o rec.help ELSE <<>>
        original == IF rec.original_name # rec.name /\ ~config_.keep_original_name
                    THEN <<<<"o","r","i","g","i","n","a","l",":"," ">> \o rec.original_name>>
                    ELSE <<>>
        prefix == IF Cardinality(rec.aliases) = 2 THEN <<"a","l","i","a","s">> ELSE <<"a","l","i","a","s","e","s">>
        aliases == IF Cardinality(rec.aliases) > 1
                   THEN <<prefix \o <<":", " ">> \o JoinSet(rec.aliases \ {rec.name})>>
                   ELSE <<>>
        extras == original \o aliases
        extras_str == IF extras # <<>>
                      THEN <<" ", "(">> \o Join(<<",", " ">>, extras) \o <<")">>
                      ELSE <<>>
    IN <<" ", " ">> \o rec.name \o extras_str \o help_string

GroupLines(group, config_) ==
    <<<<"P","a","t","h",":"," ">> \o PathStr(ShrinkPath(group[1])), <<>> >>
    \o [i \in 1..Len(group[2]) |-> RecordLine(group[2][i], config_)]
    \o << <<>> >>

SpecialLine(rec) == <<" ", " ">> \o rec.name \o <<":", " ">> \o rec.help

\* Mutant of ListLines: the special functions are printed first.
ListLinesSpecialFirst(special, source, script, config_) ==
    LET groups == IterUserFunctions(source, script)
    IN <<<<"S","p","e","c","i","a","l"," ","f","u","n","c","t","i","o","n","s",":">>>>
       \o [i \in 1..Len(special) |-> SpecialLine(special[i])]
       \o Concat([i \in 1..Len(groups) |-> GroupLines(groups[i], config_)])

ListLines(special, source, script, config_) ==
    LET groups == IterUserFunctions(source, script)
    IN Concat([i \in 1..Len(groups) |-> GroupLines(groups[i], config_)])
       \o <<<<"S","p","e","c","i","a","l"," ","f","u","n","c","t","i","o","n","s",":">>>>
       \o [i \in 1..Len(special) |-> SpecialLine(special[i])]

(***************************************************************************)
(* eval_: the error it reports and the snippet it prints.  The snippet is  *)
(* kept as the sequence of its shell commands, each an operation and its   *)
(* argument.                                                               *)
(***************************************************************************)
NotFoundMessage(function) == <<"E","r","r","o","r",":"," ","f","u","n","c","t","i","o","n"," ">> \o function \o <<" ","n","o","t"," ","f","o","u","n","d",".">>

Command(op, arg) == [op |-> op, arg |-> arg]

\* Mutant of Snippet: the environment is captured before the files are sourced.
SnippetCaptureFirst(prepared_files, command) ==
    <<Command("PID=$$", <<>>), Command("mkdir -p /tmp/antialias", <<>>), Command("(", <<>>),
      Command("env > /tmp/antialias/env-before-$PID", <<>>)>>
    \o [i \in 1..Len(prepared_files) |-> Command("source", prepared_files[i])]
    \o <<Command("command", command),
         Command("env > /tmp/antialias/env-after-$PID", <<>>),
         Command(")", <<>>),
         Command("new_env=$(comm -13 env-before-$PID env-after-$PID)", <<>>),
         Command("while read line; do export $line; done <<< $new_env", <<>>)>>

Snippet(prepared_files, command) ==
    <<Command("PID=$$", <<>>), Command("mkdir -p /tmp/antialias", <<>>), Command("(", <<>>)>>
    \o [i \in 1..Len(prepared_files) |-> Command("source", prepared_files[i])]
    \o <<Command("env > /tmp/antialias/env-before-$PID", <<>>),
         Command("command", command),
         Command("env > /tmp/antialias/env-after-$PID", <<>>),
         Command(")", <<>>),
         Command("new_env=$(comm -13 env-before-$PID env-after-$PID)", <<>>),
         Command("while read line; do export $line; done <<< $new_env", <<>>)>>

s_prog == <<"a","n","t","i","a","l","i","a","s">>

VARIABLES
    config,             \* Config: the loaded configuration
    call,               \* the arguments of the running build_all / sub-command
    functions,          \* build_all: the mapping it returns
    text,               \* file system: source file -> the definitions its text holds
    listing,            \* file system: directory -> its entries, in iterdir() order
    present,            \* file system: the source paths that are regular files now
    source_functions,   \* Registry.source_functions
    script_functions,   \* Registry.script_functions
    special_functions,  \* Registry.special_functions
    pc,                 \* position of the process
    cursor,             \* Registry.__post_init__: position of its loops
    argv,               \* sys.argv
    record,             \* eval_: the record registry.get returned
    stdout,             \* standard output
    stderr,             \* standard error
    exit_code,          \* exit status of the process (-1 while it runs)
    sh                  \* the calling shell that evaluates the emitted snippet

vars == <<config, call, functions, text, listing, present, source_functions,
          script_functions, special_functions, pc, cursor, argv, record,
          stdout, stderr, exit_code, sh>>

registryVars == <<source_functions, script_functions, special_functions>>

fsVars == <<text, listing, present>>

ioVars == <<argv, record, stdout, stderr, exit_code>>

EmptyDict == <<>>

\* The calling shell before it evaluates anything.
ShellIdle ==
    [pc |-> 0, program |-> <<>>, pid |-> 0, PID |-> 0, env0 |-> {}, env |-> {},
     sub_env |-> {}, files |-> EmptyDict, new_env |-> {}, trace |-> <<>>]

(***************************************************************************)
(* Build specification: build_all as a function of its arguments.          *)
(* The configuration holds, for the scanned (path, original_name), an      *)
(* optional exact-path override, an optional global override, and          *)
(* optionally two entries that must not match: one for another name under  *)
(* the same path and one for the same name under another path.             *)
(***************************************************************************)
OverrideNames == {None, Some(s_b)}

OverrideHelps == {None, Some(<<>>), Some(s_ov)}

OverrideAliases == {{}, {s_bld}}

OverrideValues(id) ==
    {Override(id, n, h, a) : n \in OverrideNames, h \in OverrideHelps, a \in OverrideAliases}

Decoy == Override(3, Some(s_zz), Some(s_zz), {})

\* The dict one key of Config.overrides maps to: a list of (name, Optional override).
DictOf(pairs) ==
    LET keys == {p[1] : p \in {q \in pairs : q[2] # None}}
    IN [k \in keys |-> (CHOOSE p \in pairs : p[1] = k /\ p[2] # None)[2][1]]

OverridesOf(path, original_name, exact, global, decoy) ==
    LET other == IF path = PathA THEN PathB ELSE PathA
        dec == IF decoy THEN Some(Decoy) ELSE None
        atPath == DictOf({<<original_name, exact>>, <<s_zz, dec>>})
        atOther == DictOf({<<original_name, dec>>})
        atGlobal == DictOf({<<original_name, global>>, <<s_zz, dec>>})
        keys == (IF DOMAIN atPath # {} THEN {path} ELSE {})
                \cup (IF DOMAIN atOther # {} THEN {other} ELSE {})
                \cup (IF DOMAIN atGlobal # {} \/ global # None THEN {GLOBAL} ELSE {})
    IN [k \in keys |-> IF k = path THEN atPath
                       ELSE IF k = other THEN atOther ELSE atGlobal]

Flags == [underscore_to_dash : BOOLEAN, keep_original_name : BOOLEAN]

SourceNames == {s_build, s_a_b, s_us_list}

ScriptFileNames == {s_deploy_sh, s_a_b_py, s_build}

Comments == {None, Some(<<>>), Some(s_hi)}

BuildCalls ==
    [cls : {"source"}, original_name : SourceNames, path : {PathA}, comment : Comments]
    \cup [cls : {"script"}, original_name : ScriptFileNames, path : {DirD}, comment : {None}]

BuildConfig(c, flags, exact, global, decoy) ==
    [source_files |-> <<>>,
     script_directories |-> <<>>,
     underscore_to_dash |-> flags.underscore_to_dash,
     keep_original_name |-> flags.keep_original_name,
     overrides |-> OverridesOf(c.path, c.original_name, exact, global, decoy)]

Idle ==
    /\ text = EmptyDict /\ listing = EmptyDict /\ present = {}
    /\ source_functions = EmptyDict
    /\ script_functions = EmptyDict
    /\ special_functions = <<>>
    /\ cursor = <<0, 0>>
    /\ argv = <<>> /\ record = None /\ stdout = <<>> /\ stderr = <<>>
    /\ exit_code = -1
    /\ sh = ShellIdle

InitBuild ==
    /\ call \in BuildCalls
    /\ \E flags \in Flags, decoy \in BOOLEAN,
          exact \in {None} \cup {Some(o) : o \in OverrideValues(1)},
          global \in {None} \cup {Some(o) : o \in OverrideValues(2)} :
            config = BuildConfig(call, flags, exact, global, decoy)
    /\ functions = EmptyDict
    /\ pc = "call"
    /\ Idle

\* SourceFunctionRecord.build_all(original_name, path, config, comment=comment)
SourceBuildAll ==
    /\ pc = "call" /\ call.cls = "source"
    /\ functions' = BuildRecords("source",
                        SourceGetNames(call.original_name, call.path, config),
                        call.original_name, call.path, config, call.comment)
    /\ pc' = "returned"
    /\ UNCHANGED <<config, call, fsVars, registryVars, cursor, ioVars, sh>>

\* ScriptFunctionRecord.build_all(path.name, path.parent, config)
ScriptBuildAll ==
    /\ pc = "call" /\ call.cls = "script"
    /\ \E names \in ScriptGetNames(call.original_name, call.path, config) :
         functions' = BuildRecords("script", names,
                          call.original_name, call.path, config, call.comment)
    /\ pc' = "returned"
    /\ UNCHANGED <<config, call, fsVars, registryVars, cursor, ioVars, sh>>

NextBuild == SourceBuildAll \/ ScriptBuildAll

SpecBuild == InitBuild /\ [][NextBuild]_vars

(***************************************************************************)
(* The tool's process: cli() loads the configuration and builds the        *)
(* Registry (Registry.__post_init__, one step per loop iteration), then    *)
(* one sub-command runs.                                                   *)
(***************************************************************************)
MaxItems == 2

\* The matches a source file's text can hold: (function_name, comment).
Matches ==
    {[function_name |-> s_build, comment |-> None],
     [function_name |-> s_build, comment |-> Some(s_hi)],
     [function_name |-> s_a_b, comment |-> None],
     [function_name |-> s_us_list, comment |-> None]}

\* Directory entries: name, subpath.is_file(), os.access(subpath, os.X_OK).
Entries ==
    {[name |-> s_deploy_sh, is_file |-> TRUE, executable |-> TRUE],
     [name |-> s_notes_txt, is_file |-> TRUE, executable |-> FALSE],
     [name |-> s_sub, is_file |-> FALSE, executable |-> TRUE],
     [name |-> s_build, is_file |-> TRUE, executable |-> TRUE]}

SourceFileLists == {<<>>, <<PathA>>, <<PathB>>, <<PathA, PathB>>, <<PathB, PathA>>}

ScriptDirectoryLists == {<<>>, <<DirD>>}

SeqsUpTo(S, n) == UNION {[1..k -> S] : k \in 0..n}

\* The entries of one directory have distinct names.
Listings(n) ==
    {l \in SeqsUpTo(Entries, n) : \A i, j \in 1..Len(l) : l[i].name = l[j].name => i = j}

RECURSIVE SumLen(_, _)
SumLen(f, keys) ==
    IF keys = {} THEN 0
    ELSE LET k == CHOOSE x \in keys : TRUE
         IN Len(f[k]) + SumLen(f, keys \ {k})

\* The source files' texts: at most n matches together.
RECURSIVE TextsWithin(_, _)
TextsWithin(paths, n) ==
    IF paths = {} THEN {EmptyDict}
    ELSE LET p == CHOOSE x \in paths : TRUE
         IN UNION {{Update(rest, [x \in {p} |-> matches]) :
                      rest \in TextsWithin(paths \ {p}, n - Len(matches))} :
                   matches \in SeqsUpTo(Matches, n)}

\* The directories' listings: at most n entries together.
RECURSIVE ListingsWithin(_, _)
ListingsWithin(dirs, n) ==
    IF dirs = {} THEN {EmptyDict}
    ELSE LET d == CHOOSE x \in dirs : TRUE
         IN UNION {{Update(rest, [x \in {d} |-> entries]) :
                      rest \in ListingsWithin(dirs \ {d}, n - Len(entries))} :
                   entries \in Listings(n)}

Init ==
    /\ \E flags \in Flags, files \in SourceFileLists, dirs \in ScriptDirectoryLists :
         config = [source_files |-> files,
                   script_directories |-> dirs,
                   underscore_to_dash |-> flags.underscore_to_dash,
                   keep_original_name |-> flags.keep_original_name,
                   overrides |-> EmptyDict]
    /\ text \in TextsWithin(Range(config.source_files), MaxItems)
    /\ listing \in ListingsWithin(Range(config.script_directories),
                                  MaxItems - SumLen(text, DOMAIN text))
    /\ present = Range(config.source_files)
    /\ call = [cmd |-> "cli"]
    /\ functions = EmptyDict
    /\ source_functions = EmptyDict
    /\ script_functions = EmptyDict
    /\ special_functions = <<>>
    /\ pc = "source"
    /\ cursor = <<1, 1>>
    /\ argv = <<>> /\ record = None /\ stdout = <<>> /\ stderr = <<>>
    /\ exit_code = -1
    /\ sh = ShellIdle

\* for path in self.config.source_files: one iteration.
ScanSourceFile ==
    /\ pc = "source" /\ cursor[1] <= Len(config.source_files)
    /\ LET path == config.source_files[cursor[1]]
           scanned == GetSourceFunctions(EmptyDict, text[path], path, config)
       IN source_functions' = Update(source_functions, scanned)
    /\ cursor' = <<cursor[1] + 1, 1>>
    /\ UNCHANGED <<config, call, functions, fsVars, script_functions,
                   special_functions, pc, ioVars, sh>>

\* for special_name, (name, comment) in SPECIAL_FUNCTIONS.items(): the whole loop.
AddSpecialFunctions ==
    /\ pc = "source" /\ cursor[1] > Len(config.source_files)
    /\ special_functions' =
         [i \in 1..Len(SPECIAL_FUNCTIONS) |-> SpecialFunctionRecord(SPECIAL_FUNCTIONS[i])]
    /\ pc' = "script"
    /\ cursor' = <<1, 1>>
    /\ UNCHANGED <<config, call, functions, fsVars, source_functions,
                   script_functions, ioVars, sh>>

\* Mutant of IsExecutableFile: the execute permission is not asked for.
IsFile(entry) == entry.is_file

\* subpath.is_file() and os.access(subpath, os.X_OK)
IsExecutableFile(entry) == entry.is_file /\ entry.executable

\* for subpath in path.iterdir(): one iteration.
ScanScriptEntry ==
    /\ pc = "script" /\ cursor[1] <= Len(config.script_directories)
    /\ LET path == config.script_directories[cursor[1]]
       IN /\ cursor[2] <= Len(listing[path])
          /\ LET entry == listing[path][cursor[2]]
             IN IF IsExecutableFile(entry)
                THEN \E names \in ScriptGetNames(entry.name, path, config) :
                       script_functions' =
                         Update(script_functions,
                                BuildRecords("script", names, entry.name, path, config, None))
                ELSE UNCHANGED script_functions
    /\ cursor' = <<cursor[1], cursor[2] + 1>>
    /\ UNCHANGED <<config, call, functions, fsVars, source_functions,
                   special_functions, pc, ioVars, sh>>

\* for path in self.config.script_directories: the directory is exhausted.
NextScriptDirectory ==
    /\ pc = "script" /\ cursor[1] <= Len(config.script_directories)
    /\ cursor[2] > Len(listing[config.script_directories[cursor[1]]])
    /\ cursor' = <<cursor[1] + 1, 1>>
    /\ UNCHANGED <<config, call, functions, fsVars, registryVars, pc, ioVars, sh>>

\* Registry.__post_init__ returns; cli() stores the registry for the sub-command.
RegistryBuilt ==
    /\ pc = "script" /\ cursor[1] > Len(config.script_directories)
    /\ pc' = "built"
    /\ UNCHANGED <<config, call, functions, fsVars, registryVars, cursor, ioVars, sh>>

s_x == <<"x">>

s_a_sp_q == <<"a"," ","'">>

s_a_dash_b == <<"a","-","b">>

\* The names the sub-command is asked for, and its argument lists.
LookupNames ==
    {s_build, s_a_b, s_a_dash_b, s_us_list, s_dd_list, s_dd_dump_config,
     s_deploy, s_deploy_sh, s_zz}

EvalArgLists == {<<>>, <<s_a_sp_q, s_x>>}

s_dash_c == <<"-","c">>

s_cfg == <<"c","f","g">>

\* The global options given before the sub-command: none, `-c cfg`, and
\* `-c eval` (a configuration file that is named eval).
GlobalOptionLists == {<<>>, <<s_dash_c, s_cfg>>, <<s_dash_c, EVAL_COMMAND>>}

\* A configured source file is removed while the process runs.
Unlink(path) ==
    /\ pc = "built" /\ path \in present
    /\ present' = present \ {path}
    /\ UNCHANGED <<config, call, functions, text, listing, registryVars, pc, cursor,
                   ioVars, sh>>

\* eval_(ctx, function, args), for the command line `antialias eval function args...`
Eval(options, function, args) ==
    /\ pc = "built"
    /\ call' = [cmd |-> "eval", options |-> options, function |-> function,
                args |-> args]
    /\ argv' = <<s_prog>> \o options \o <<EVAL_COMMAND, function>> \o args
    /\ IF ~RegistryContains(special_functions, source_functions, script_functions, function)
       THEN /\ stderr' = <<NotFoundMessage(function)>>
            /\ exit_code' = 1
            /\ UNCHANGED <<record, stdout>>
       ELSE LET files == SelectSeq(config.source_files, LAMBDA file : file \in present)
                prepared_files == [i \in 1..Len(files) |-> Quote(PathStr(files[i]))]
                rec == RegistryGet(special_functions, source_functions,
                                   script_functions, function)[1]
            IN /\ record' = Some(rec)
               /\ stdout' = Snippet(prepared_files, FormatCommand(rec, args, argv'))
               /\ exit_code' = 0
               /\ UNCHANGED stderr
    /\ pc' = "done"
    /\ UNCHANGED <<config, functions, fsVars, registryVars, cursor, sh>>

\* list_(ctx), for the command line `antialias list`
List ==
    /\ pc = "built"
    /\ call' = [cmd |-> "list"]
    /\ argv' = <<s_prog, s_list>>
    /\ stdout' = ListLines(special_functions, source_functions, script_functions, config)
    /\ exit_code' = 0
    /\ pc' = "done"
    /\ UNCHANGED <<config, functions, fsVars, registryVars, cursor, record, stderr, sh>>

Next ==
    \/ ScanSourceFile
    \/ AddSpecialFunctions
    \/ ScanScriptEntry
    \/ NextScriptDirectory
    \/ RegistryBuilt
    \/ \E options \in GlobalOptionLists, function \in LookupNames, args \in EvalArgLists :
         Eval(options, function, args)
    \/ List

Spec == Init /\ [][Next]_vars

(***************************************************************************)
(* The calling shell.  The wrapper function evaluates what `antialias eval` *)
(* printed: eval "$(antialias eval function args...)".  An environment is  *)
(* the set of its NAME=VALUE lines, kept as pairs.  comm -13 is the lines  *)
(* of its second file that its first file lacks.                           *)
(***************************************************************************)
Pids == {41, 42}

Environments == {{<<"HOME", "h">>}, {<<"HOME", "h">>, <<"VA", "1">>}}

\* What sourcing a file exports: a.sh exports VA=1 and b.sh exports VB=1.
SourceEffect(path) == IF path = PathA THEN {<<"VA", "1">>} ELSE {<<"VB", "1">>}

\* What running the function can export.
CommandEffects == {{}, {<<"VC", "1">>}, {<<"VA", "1">>}, {<<"VA", "2">>}}

\* The environment after the assignments.
Assign(env, assignments) ==
    {line \in env : \A a \in assignments : a[1] # line[1]} \cup assignments

ShellAt(op) ==
    /\ sh.pc >= 1 /\ sh.pc <= Len(sh.program)
    /\ sh.program[sh.pc].op = op

Stepped(op, arg) == [sh EXCEPT !.pc = @ + 1, !.trace = Append(@, <<op, arg>>)]

toolVars == <<config, call, functions, fsVars, registryVars, pc, cursor, ioVars>>

\* eval "$(antialias eval ...)": the shell starts on the printed snippet.
ShellEval ==
    /\ pc = "done" /\ call.cmd = "eval" /\ sh.pc = 0
    /\ \E pid \in Pids, env \in Environments :
         sh' = [sh EXCEPT !.pc = 1, !.program = stdout, !.pid = pid,
                          !.env0 = env, !.env = env]
    /\ UNCHANGED toolVars

\* PID=$$
ShellSetPid ==
    /\ ShellAt("PID=$$")
    /\ sh' = [Stepped("pid", <<>>) EXCEPT !.PID = sh.pid]
    /\ UNCHANGED toolVars

\* mkdir -p /tmp/antialias
ShellMkdir ==
    /\ ShellAt("mkdir -p /tmp/antialias")
    /\ sh' = Stepped("mkdir", <<>>)
    /\ UNCHANGED toolVars

\* ( : the sub-shell starts with the shell's variables and environment.
ShellOpen ==
    /\ ShellAt("(")
    /\ sh' = [Stepped("(", <<>>) EXCEPT !.sub_env = sh.env]
    /\ UNCHANGED toolVars

\* source {file}
ShellSource ==
    /\ ShellAt("source")
    /\ LET arg == sh.program[sh.pc].arg
           file == CHOOSE path \in Range(config.source_files) : Quote(PathStr(path)) = arg
       IN sh' = [Stepped("source", arg) EXCEPT !.sub_env = Assign(@, SourceEffect(file))]
    /\ UNCHANGED toolVars

\* env > /tmp/antialias/env-before-$PID
ShellEnvBefore ==
    /\ ShellAt("env > /tmp/antialias/env-before-$PID")
    /\ sh' = [Stepped("before", <<>>) EXCEPT
                !.files = Update(@, [f \in {<<"env-before", sh.PID>>} |-> sh.sub_env])]
    /\ UNCHANGED toolVars

\* {command}
ShellCommand ==
    /\ ShellAt("command")
    /\ \E effect \in CommandEffects :
         sh' = [Stepped("command", sh.program[sh.pc].arg) EXCEPT
                  !.sub_env = Assign(@, effect)]
    /\ UNCHANGED toolVars

\* env > /tmp/antialias/env-after-$PID
ShellEnvAfter ==
    /\ ShellAt("env > /tmp/antialias/env-after-$PID")
    /\ sh' = [Stepped("after", <<>>) EXCEPT
                !.files = Update(@, [f \in {<<"env-after", sh.PID>>} |-> sh.sub_env])]
    /\ UNCHANGED toolVars

\* ) : the sub-shell ends and its environment is gone.
ShellClose ==
    /\ ShellAt(")")
    /\ sh' = [Stepped(")", <<>>) EXCEPT !.sub_env = {}]
    /\ UNCHANGED toolVars

\* new_env=$(comm -13 /tmp/antialias/env-before-$PID /tmp/antialias/env-after-$PID)
ShellComm ==
    /\ ShellAt("new_env=$(comm -13 env-before-$PID env-after-$PID)")
    /\ sh' = [Stepped("comm", <<>>) EXCEPT
                !.new_env = sh.files[<<"env-after", sh.PID>>]
                            \ sh.files[<<"env-before", sh.PID>>]]
    /\ UNCHANGED toolVars

\* while IFS= read -r line; do [ -n "$line" ] && export "$line"; done <<< "$new_env"
ShellExport ==
    /\ ShellAt("while read line; do export $line; done <<< $new_env")
    /\ sh' = [Stepped("export", <<>>) EXCEPT !.env = Assign(@, sh.new_env)]
    /\ UNCHANGED toolVars

ShellLookupNames == {s_build, s_dd_list, s_deploy, s_zz}

\* The file systems of the shell specification: every source file defines build,
\* and the directory holds an executable deploy.sh.
InitShell ==
    /\ \E files \in SourceFileLists, dirs \in ScriptDirectoryLists :
         config = [source_files |-> files,
                   script_directories |-> dirs,
                   underscore_to_dash |-> FALSE,
                   keep_original_name |-> FALSE,
                   overrides |-> EmptyDict]
    /\ text = [path \in Range(config.source_files) |->
                 <<[function_name |-> s_build, comment |-> None]>>]
    /\ listing = [dir \in Range(config.script_directories) |->
                    <<[name |-> s_deploy_sh, is_file |-> TRUE, executable |-> TRUE]>>]
    /\ present = Range(config.source_files)
    /\ call = [cmd |-> "cli"]
    /\ functions = EmptyDict
    /\ source_functions = EmptyDict
    /\ script_functions = EmptyDict
    /\ special_functions = <<>>
    /\ pc = "source"
    /\ cursor = <<1, 1>>
    /\ argv = <<>> /\ record = None /\ stdout = <<>> /\ stderr = <<>>
    /\ exit_code = -1
    /\ sh = ShellIdle

NextShell ==
    \/ ScanSourceFile
    \/ AddSpecialFunctions
    \/ ScanScriptEntry
    \/ NextScriptDirectory
    \/ RegistryBuilt
    \/ \E path \in Range(config.source_files) : Unlink(path)
    \/ \E function \in ShellLookupNames : Eval(<<>>, function, <<s_x>>)
    \/ ShellEval
    \/ ShellSetPid
    \/ ShellMkdir
    \/ ShellOpen
    \/ ShellSource
    \/ ShellEnvBefore
    \/ ShellCommand
    \/ ShellEnvAfter
    \/ ShellClose
    \/ ShellComm
    \/ ShellExport

SpecShell == InitShell /\ [][NextShell]_vars

(***************************************************************************)
(* Properties of build_all (specification SpecBuild).                      *)
(***************************************************************************)
\* The override entry of the configuration for the scanned function, if any.
ExactEntry ==
    IF call.path \in DOMAIN config.overrides
       /\ call.original_name \in DOMAIN config.overrides[call.path]
    THEN Some(config.overrides[call.path][call.original_name])
    ELSE None

GlobalEntry ==
    IF GLOBAL \in DOMAIN config.overrides
       /\ call.original_name \in DOMAIN config.overrides[GLOBAL]
    THEN Some(config.overrides[GLOBAL][call.original_name])
    ELSE None

\* Exact path first, else the global wildcard.
ResolvedEntry == IF ExactEntry # None THEN ExactEntry ELSE GlobalEntry

SourceReturned == pc = "returned" /\ call.cls = "source"

\* C1: a scanned function whose resolved override carries a name and/or aliases
\* is registered, with keep_original_name=false, under exactly the override's
\* aliases (the name included), each resolving to a record with its original
\* name; the derived name is not registered.
C1_OverrideAliasesAreTheNames ==
    (/\ SourceReturned
     /\ ~config.keep_original_name
     /\ ResolvedEntry # None
     /\ ResolvedEntry[1].aliases # {})
    => /\ DOMAIN functions = ResolvedEntry[1].aliases
       /\ \A alias \in ResolvedEntry[1].aliases :
            /\ alias \in DOMAIN functions
            /\ functions[alias].original_name = call.original_name

\* m is n with every "_" replaced by "-".
IsDashed(n, m) ==
    /\ Len(m) = Len(n)
    /\ \A i \in 1..Len(n) : m[i] = (IF n[i] = "_" THEN "-" ELSE n[i])

\* C2: without a matching override the derived names of a source function n are
\* {n'} plus n when keep_original_name is set, n' being n with every "_" replaced
\* by "-" under underscore_to_dash and n itself otherwise.
C2_DerivedNames ==
    (SourceReturned /\ ResolvedEntry = None)
    => LET n == call.original_name
           IsPrimary(m) == IF config.underscore_to_dash THEN IsDashed(n, m) ELSE m = n
       IN /\ \E m \in DOMAIN functions : IsPrimary(m)
          /\ \A m \in DOMAIN functions :
               IsPrimary(m) \/ (config.keep_original_name /\ m = n)
          /\ config.keep_original_name => n \in DOMAIN functions
          /\ (~config.underscore_to_dash /\ ~config.keep_original_name)
               => DOMAIN functions = {n}

\* C2 witness: __list, underscore_to_dash without keep_original_name and entries
\* for other names and paths only: the one derived name is --list.
C2_Witness ==
    /\ SourceReturned /\ ResolvedEntry = None
    /\ config.overrides # EmptyDict
    /\ call.original_name = s_us_list
    /\ config.underscore_to_dash /\ ~config.keep_original_name
    /\ DOMAIN functions = {<<"-","-","l","i","s","t">>}

\* C10: the help of every record the scanner builds is the resolved override's
\* help when it has a (non-empty) one, else the inline comment, else the empty
\* string; the records of one definition carry the same help.
C10_Help ==
    SourceReturned
    => LET expected ==
               IF ResolvedEntry # None /\ ResolvedEntry[1].help \notin {None, Some(<<>>)}
               THEN ResolvedEntry[1].help[1]
               ELSE IF call.comment # None THEN call.comment[1]
               ELSE <<>>
       IN /\ functions # EmptyDict
          /\ \A name \in DOMAIN functions : functions[name].help = expected

\* C10 witness: the exact-path override has no help, the global one has, and the
\* definition line carries a comment: the comment is the help of both records.
C10_Witness ==
    /\ SourceReturned
    /\ ExactEntry # None /\ ExactEntry[1].help = None
    /\ GlobalEntry # None /\ GlobalEntry[1].help = Some(s_ov)
    /\ call.comment = Some(s_hi)
    /\ Cardinality(DOMAIN functions) = 2
    /\ \A name \in DOMAIN functions : functions[name].help = s_hi

(***************************************************************************)
(* Properties of the registry and of the sub-commands (specification Spec).*)
(***************************************************************************)
SourcesScanned == pc \in {"script", "built", "done"}

Built == pc \in {"built", "done"}

\* The definitions of the configured source files, in scan order.
ScannedDefinitions ==
    Concat([i \in 1..Len(config.source_files) |->
              [j \in 1..Len(text[config.source_files[i]]) |->
                 [path |-> config.source_files[i],
                  match |-> text[config.source_files[i]][j]]]])

\* The names under which a scanned definition is registered.
NamesOf(def) == SourceGetNames(def.match.function_name, def.path, config)

\* C3: every name of source_functions holds the record of the last definition,
\* in scan order (source_files order, then text order), that derives the name;
\* with a.sh before b.sh both defining build, the record of build has path b.sh.
C3_LastDefinitionWins ==
    SourcesScanned
    => LET defs == ScannedDefinitions
       IN /\ DOMAIN source_functions = UNION {NamesOf(defs[k]) : k \in 1..Len(defs)}
          /\ \A name \in DOMAIN source_functions :
               LET deriving == {k \in 1..Len(defs) : name \in NamesOf(defs[k])}
                   last == CHOOSE k \in deriving : \A l \in deriving : l <= k
                   rec == source_functions[name]
               IN /\ rec.name = name
                  /\ rec.path = defs[last].path
                  /\ rec.original_name = defs[last].match.function_name
                  /\ rec.help = (IF defs[last].match.comment = None
                                 THEN <<>> ELSE defs[last].match.comment[1])

\* C3 witness: a.sh defines build with a comment, b.sh defines it without one.
C3_Witness ==
    /\ pc = "built"
    /\ config.source_files = <<PathA, PathB>>
    /\ text[PathA] = <<[function_name |-> s_build, comment |-> Some(s_hi)]>>
    /\ text[PathB] = <<[function_name |-> s_build, comment |-> None]>>
    /\ source_functions[s_build].path = PathB
    /\ source_functions[s_build].help = <<>>

\* C4: get(name) is the special record if the name is a special key, else the
\* source record, else the script record, and fails exactly when the name is a
\* key of none of the maps; `name in registry` holds exactly when get succeeds.
C4_LookupPriority ==
    /\ \A name \in LookupNames :
         LET got == RegistryGet(special_functions, source_functions, script_functions, name)
             isIn == RegistryContains(special_functions, source_functions,
                                      script_functions, name)
         IN /\ got = (IF \E i \in 1..Len(special_functions) : special_functions[i].name = name
                      THEN Some(special_functions[
                                  CHOOSE i \in 1..Len(special_functions) :
                                      special_functions[i].name = name])
                      ELSE IF name \in DOMAIN source_functions
                      THEN Some(source_functions[name])
                      ELSE IF name \in DOMAIN script_functions
                      THEN Some(script_functions[name])
                      ELSE None)
            /\ isIn <=> got # None
    /\ (pc = "done" /\ call.cmd = "eval" /\ exit_code = 0)
         => record = RegistryGet(special_functions, source_functions,
                                 script_functions, call.function)

\* C4 witness: __list is scanned under underscore_to_dash, so --list is a key of
\* the special and of the source functions, and `eval --list` got the special one.
C4_Witness ==
    /\ pc = "done" /\ call.cmd = "eval" /\ call.function = s_dd_list
    /\ s_dd_list \in DOMAIN source_functions
    /\ record # None /\ record[1].cls = "special"

\* The words a POSIX shell reads from a command line of plain characters,
\* blanks, single and double quotes.
RECURSIVE ShellParse(_, _, _, _, _)
ShellParse(chars, mode, word, open, words) ==
    IF chars = <<>> THEN (IF open THEN Append(words, word) ELSE words)
    ELSE LET c == Head(chars)
             rest == Tail(chars)
         IN IF mode = "single"
            THEN (IF c = "'" THEN ShellParse(rest, "plain", word, TRUE, words)
                  ELSE ShellParse(rest, "single", Append(word, c), TRUE, words))
            ELSE IF mode = "double"
            THEN (IF c = "\"" THEN ShellParse(rest, "plain", word, TRUE, words)
                  ELSE ShellParse(rest, "double", Append(word, c), TRUE, words))
            ELSE IF c = " "
            THEN ShellParse(rest, "plain", <<>>, FALSE,
                            IF open THEN Append(words, word) ELSE words)
            ELSE IF c = "'" THEN ShellParse(rest, "single", word, TRUE, words)
            ELSE IF c = "\"" THEN ShellParse(rest, "double", word, TRUE, words)
            ELSE ShellParse(rest, "plain", Append(word, c), TRUE, words)

ShellWords(chars) == ShellParse(chars, "plain", <<>>, FALSE, <<>>)

EvalFound == pc = "done" /\ call.cmd = "eval" /\ exit_code = 0

\* The command line of the emitted snippet.
EmittedCommand ==
    stdout[CHOOSE k \in 1..Len(stdout) : stdout[k].op = "command"].arg

\* C5: for a source or script record, under whichever of its names it was
\* looked up, the command is the executable, a blank and the caller's arguments
\* shell-quoted in order; the executable is original_name for a source function
\* and directory/file-name for a script, never the alias.
C5_FormatCommand ==
    (EvalFound /\ record[1].cls \in {"source", "script"})
    => LET rec == record[1]
           executable == IF rec.cls = "source" THEN rec.original_name
                         ELSE s_root \o Join(<<"/">>, Tail(rec.path))
                              \o <<"/">> \o rec.original_name
           n == Len(executable)
           command == EmittedCommand
       IN /\ rec.name = call.function
          /\ Len(command) > n
          /\ SubSeq(command, 1, n) = executable
          /\ command[n + 1] = " "
          /\ ShellWords(SubSeq(command, n + 2, Len(command))) = call.args

\* C5 witness: a_b is registered as a-b and `eval a-b "a '" x` runs a_b.
C5_Witness ==
    /\ EvalFound /\ call.function = s_a_dash_b /\ call.args = <<s_a_sp_q, s_x>>
    /\ record[1].cls = "source" /\ record[1].original_name = s_a_b
    /\ EmittedCommand
         = <<"a","_","b"," ","'","a"," ","'","\"","'","\"","'","'"," ","x">>

\* line holds part as a substring.
HasSubstring(line, part) ==
    \E i \in 0..(Len(line) - Len(part)) : SubSeq(line, i + 1, i + Len(part)) = part

InSomeMap(name) ==
    \/ \E i \in 1..Len(special_functions) : special_functions[i].name = name
    \/ name \in DOMAIN source_functions
    \/ name \in DOMAIN script_functions

\* C6: `eval name` for a name in none of the maps exits with status 1, reports
\* "function <name> not found" on standard error and prints nothing; for a name
\* in the registry it prints the snippet and does not exit with status 1.
C6_UnknownFunction ==
    (pc = "done" /\ call.cmd = "eval")
    => IF InSomeMap(call.function)
       THEN /\ exit_code # 1
            /\ stdout # <<>>
            /\ \E k \in 1..Len(stdout) : stdout[k].op = "command"
            /\ stderr = <<>>
       ELSE /\ exit_code = 1
            /\ stdout = <<>>
            /\ \E k \in 1..Len(stderr) :
                 HasSubstring(stderr[k], <<"f","u","n","c","t","i","o","n"," ">> \o call.function \o <<" ","n","o","t"," ","f","o","u","n","d">>)

\* C6 witness: `eval zz` with no function zz.
C6_Witness ==
    /\ pc = "done" /\ call.cmd = "eval" /\ call.function = s_zz
    /\ exit_code = 1 /\ stdout = <<>>
    /\ stderr = <<<<"E","r","r","o","r",":"," ","f","u","n","c","t","i","o","n"," ","z","z"," ","n","o","t"," ","f","o","u","n","d",".">>>>

\* (C7 is stated with the shell specification, below.)

\* The executable regular files of the configured directories.
ExecutableEntries ==
    {<<d, e>> \in UNION {{<<dir, listing[dir][i]>> : i \in 1..Len(listing[dir])} :
                            dir \in Range(config.script_directories)} :
        e.is_file /\ e.executable}

\* C8: a directory entry contributes records if and only if it is a regular
\* file marked executable; with default flags an executable deploy.sh is
\* registered as deploy and under no other key, a non-executable notes.txt
\* under none.
C8_ExecutableFilesOnly ==
    Built
    => /\ \A name \in DOMAIN script_functions :
            \E de \in ExecutableEntries :
                /\ script_functions[name].path = de[1]
                /\ script_functions[name].original_name = de[2].name
       /\ \A de \in ExecutableEntries :
            \E name \in DOMAIN script_functions :
                /\ script_functions[name].path = de[1]
                /\ script_functions[name].original_name = de[2].name
       /\ (~config.underscore_to_dash /\ ~config.keep_original_name)
            => \A de \in ExecutableEntries :
                 de[2].name = s_deploy_sh
                 => {name \in DOMAIN script_functions :
                       script_functions[name].original_name = s_deploy_sh} = {s_deploy}

\* C8 witness: the directory holds an executable deploy.sh and a non-executable
\* notes.txt, and deploy is the only key.
C8_Witness ==
    /\ pc = "built"
    /\ ~config.underscore_to_dash /\ ~config.keep_original_name
    /\ config.script_directories = <<DirD>>
    /\ {listing[DirD][i] : i \in 1..Len(listing[DirD])}
         = {[name |-> s_deploy_sh, is_file |-> TRUE, executable |-> TRUE],
            [name |-> s_notes_txt, is_file |-> TRUE, executable |-> FALSE]}
    /\ DOMAIN script_functions = {s_deploy}

SpecialSection ==
    <<<<"S","p","e","c","i","a","l"," ","f","u","n","c","t","i","o","n","s",":">>,
      <<" "," ","-","-","d","u","m","p","-","c","o","n","f","i","g",":"," ","D","u","m","p"," ","c","o","n","f","i","g"," ","t","o"," ","a"," ","f","i","l","e",".">>,
      <<" "," ","-","-","l","i","s","t",":"," ","L","i","s","t"," ","a","l","l"," ","a","v","a","i","l","a","b","l","e"," ","f","u","n","c","t","i","o","n","s",".">>>>

\* C9: special_functions has exactly the keys --dump-config and --list, for
\* dump-config and list; `list` prints them in that order with their help under
\* a last "Special functions:" section, which is the whole output when no source
\* file and no script directory is configured.
C9_SpecialFunctions ==
    /\ Built
       => /\ {special_functions[i].name : i \in 1..Len(special_functions)}
               = {<<"-","-","d","u","m","p","-","c","o","n","f","i","g">>, <<"-","-","l","i","s","t">>}
          /\ Len(special_functions) = 2
          /\ \A i \in 1..Len(special_functions) :
               special_functions[i].original_name
                 = (IF special_functions[i].name = <<"-","-","l","i","s","t">> THEN <<"l","i","s","t">> ELSE <<"d","u","m","p","-","c","o","n","f","i","g">>)
    /\ (pc = "done" /\ call.cmd = "list")
       => /\ Len(stdout) >= 3
          /\ SubSeq(stdout, Len(stdout) - 2, Len(stdout)) = SpecialSection
          /\ \A k \in 1..(Len(stdout) - 3) : stdout[k] \notin Range(SpecialSection)
          /\ (config.source_files = <<>> /\ config.script_directories = <<>>)
               => stdout = SpecialSection

\* C9 witness: `list` with functions to list before the special section.
C9_Witness ==
    /\ pc = "done" /\ call.cmd = "list"
    /\ source_functions # EmptyDict /\ script_functions # EmptyDict
    /\ Len(stdout) > 3
    /\ SubSeq(stdout, Len(stdout) - 2, Len(stdout)) = SpecialSection

(***************************************************************************)
(* Properties of the emitted snippet (specification SpecShell).            *)
(***************************************************************************)
ShellFinished == sh.pc > Len(sh.program) /\ sh.program # <<>>

\* The steps the shell has run, without the bookkeeping around them.
StepsRun ==
    SelectSeq(sh.trace,
              LAMBDA t : t[1] \in {"before", "source", "command", "after", "export"})

\* The configured source files that were regular files when eval_ ran, quoted.
SourcedFiles ==
    LET files == SelectSeq(config.source_files, LAMBDA file : file \in present)
    IN [i \in 1..Len(files) |-> <<"source", Quote(PathStr(files[i]))>>]

CommandStep == <<"command", EmittedCommand>>

\* C7 as claimed: the environment is captured to the before file, then the
\* source files are sourced, then the command runs, then the environment is
\* captured to the after file, then the new lines are exported.
C7_CaptureBeforeSourcing ==
    ShellFinished
    => StepsRun = << <<"before", <<>> >> >> \o SourcedFiles
                  \o <<CommandStep, <<"after", <<>> >>, <<"export", <<>> >> >>

\* C7 amended: the source files are sourced first, in the configured order, then
\* the environment is captured to the before file, the command runs, the
\* environment is captured to the after file, both files carrying the shell's
\* process id, and every line of the after file that the before file lacks is
\* exported into the calling shell.
C7_SnippetOrder ==
    ShellFinished
    => /\ StepsRun = SourcedFiles
                     \o << <<"before", <<>> >>, CommandStep,
                           <<"after", <<>> >>, <<"export", <<>> >> >>
       /\ DOMAIN sh.files = {<<"env-before", sh.pid>>, <<"env-after", sh.pid>>}
       /\ LET before == sh.files[<<"env-before", sh.pid>>]
              after == sh.files[<<"env-after", sh.pid>>]
          IN /\ \A line \in after \ before : line \in sh.env
             /\ \A line \in sh.env : line \in sh.env0 \/ line \in after \ before

\* C7 witness: a.sh and b.sh are sourced, the function exports VC=1, and the
\* calling shell has got VC but neither VA nor VB, which sourcing alone set.
C7_Witness ==
    /\ ShellFinished
    /\ Len(SourcedFiles) = 2
    /\ sh.env0 = {<<"HOME", "h">>}
    /\ sh.env = {<<"HOME", "h">>, <<"VC", "1">>}
    /\ <<"VA", "1">> \in sh.files[<<"env-before", sh.pid>>]

\* ---------------------------------------------------------------------------
\* Partition of the registry (Spec)

SpecialKeys == {special_functions[i].name : i \in 1..Len(special_functions)}

\* C11: once the registry is built, the key sets of source_functions,
\* script_functions and special_functions are pairwise disjoint: no name is a
\* key of two maps, and no user name equals a special-function token.
C11_DisjointKeys ==
    Built =>
        /\ DOMAIN source_functions \cap DOMAIN script_functions = {}
        /\ DOMAIN source_functions \cap SpecialKeys = {}
        /\ DOMAIN script_functions \cap SpecialKeys = {}

\* ---------------------------------------------------------------------------
\* The listing enumeration (Spec)

UserRecords == Range(source_functions) \cup Range(script_functions)

Enumeration == IterUserFunctions(source_functions, script_functions)

\* The records the enumeration yields, with the index of their group.
Yielded ==
    {<<i, Enumeration[i][2][k]>> : <<i, k>> \in
        {<<i, k>> \in (1..Len(Enumeration)) \X (1..(2 * MaxItems + 2)) :
            k <= Len(Enumeration[i][2])}}

\* C12: iter_user_functions yields the groups in ascending order of path and
\* the records of a group in ascending order of name, and for every pair
\* (path, original_name) among the source and script records it yields exactly
\* one record, the one of that pair with the smallest name.
C12_Enumeration ==
    Built =>
        /\ \A i, j \in 1..Len(Enumeration) :
             i < j => PathLess(Enumeration[i][1], Enumeration[j][1])
        /\ \A i \in 1..Len(Enumeration) :
             LET group == Enumeration[i][2]
             IN /\ \A k \in 1..Len(group) : group[k].path = Enumeration[i][1]
                /\ \A k, l \in 1..Len(group) :
                     k < l => StrLess(group[k].name, group[l].name)
        /\ \A y \in Yielded : y[2] \in UserRecords
        /\ \A r \in UserRecords :
             LET same == {q \in UserRecords : /\ q.path = r.path
                                              /\ q.original_name = r.original_name}
                 hits == {y \in Yielded : y[2] \in same}
             IN /\ Cardinality(hits) = 1
                /\ \A y \in hits : \A q \in same \ {y[2]} : StrLess(y[2].name, q.name)

\* C12 witness: `list` ran on a registry with a source file and a script
\* directory, where a_b is registered under both a-b and a_b and is listed once,
\* as a-b.
C12_Witness ==
    /\ pc = "done" /\ call.cmd = "list"
    /\ Len(Enumeration) = 2
    /\ {s_a_b, s_a_dash_b} \subseteq DOMAIN source_functions
    /\ source_functions[s_a_b].original_name = s_a_b
    /\ source_functions[s_a_dash_b].original_name = s_a_b
    /\ \E i \in 1..Len(Enumeration) :
         /\ Enumeration[i][1] = source_functions[s_a_b].path
         /\ Enumeration[i][2] = <<source_functions[s_a_dash_b]>>

\* ---------------------------------------------------------------------------
\* Special functions re-invoke the tool (Spec)

\* C13: for a special record, the command is the tool's invocation as given,
\* that is the program name and all global options and their values that
\* preceded the eval sub-command, followed by the record's original_name and
\* the caller's arguments in order.
C13_SpecialReinvokesTool ==
    (EvalFound /\ record[1].cls = "special")
    => ShellWords(EmittedCommand)
         = <<s_prog>> \o call.options \o <<record[1].original_name>> \o call.args

====
